---- MODULE Spec2Model ----
(***************************************************************************)
(* Model of the media-ingestion logic of facefusion's UI components:       *)
(*   src/facefusion/uis/components/source.py  (batch flow, update)         *)
(*   src/facefusion/uis/components/target.py  (single-reference flow,      *)
(*                                             update / download_in_chunks)*)
(* Strings (references, paths, URLs) are sequences of one-character        *)
(* strings, so that startswith, strip, split, basename, splitext and       *)
(* realpath are computed character by character as Python computes them.   *)
(* The empty sequence stands for Python's "" and for None (both falsy).     *)
(***************************************************************************)
EXTENDS Integers, Sequences, FiniteSets, TLC

(* ------------------------------------------------------------------ *)
(* Bounds of the model                                                  *)
(* ------------------------------------------------------------------ *)
\* handler invocations (source update + target update) explored per behaviour
MaxRuns == 2
\* chunks shorter than chunk_size (empty ones included) a stream may deliver
MaxShortChunks == 1

(* ------------------------------------------------------------------ *)
(* String helpers (Python str methods)                                  *)
(* ------------------------------------------------------------------ *)
Min(a, b) == IF a <= b THEN a ELSE b

\* s.startswith(p)
StartsWith(s, p) == Len(p) <= Len(s) /\ SubSeq(s, 1, Len(p)) = p

LowerChar(c) ==
    CASE c = "H" -> "h"
      [] c = "T" -> "t"
      [] c = "P" -> "p"
      [] c = "S" -> "s"
      [] c = "N" -> "n"
      [] c = "G" -> "g"
      [] OTHER -> c

\* s.lower()
Lower(s) == [i \in 1..Len(s) |-> LowerChar(s[i])]

RECURSIVE LStrip(_)
LStrip(s) == IF s /= <<>> /\ Head(s) = " " THEN LStrip(Tail(s)) ELSE s

RECURSIVE RStrip(_)
RStrip(s) ==
    IF s /= <<>> /\ s[Len(s)] = " " THEN RStrip(SubSeq(s, 1, Len(s) - 1)) ELSE s

\* s.strip()
Strip(s) == RStrip(LStrip(s))

\* index of the first occurrence of character c in s, 0 when absent
RECURSIVE IndexOf(_, _, _)
IndexOf(s, c, i) ==
    IF i > Len(s) THEN 0 ELSE IF s[i] = c THEN i ELSE IndexOf(s, c, i + 1)

\* s.rfind(c) + 1: index of the last occurrence of c in s, 0 when absent
RECURSIVE LastIndexOf(_, _, _)
LastIndexOf(s, c, i) ==
    IF i < 1 THEN 0 ELSE IF s[i] = c THEN i ELSE LastIndexOf(s, c, i - 1)

\* s.split(c)
RECURSIVE Split(_, _)
Split(s, c) ==
    LET k == IndexOf(s, c, 1)
    IN IF k = 0 THEN <<s>>
       ELSE <<SubSeq(s, 1, k - 1)>> \o Split(SubSeq(s, k + 1, Len(s)), c)

\* [x for x in seq if keep(x)]
RECURSIVE SelectTruthy(_)
SelectTruthy(seq) ==
    IF seq = <<>> THEN <<>>
    ELSE IF Head(seq) /= <<>> THEN <<Head(seq)>> \o SelectTruthy(Tail(seq))
    ELSE SelectTruthy(Tail(seq))

Range(seq) == {seq[i] : i \in 1..Len(seq)}

\* all orderings of a finite set, as sequences without repetition
Orderings(S) ==
    {q \in [1..Cardinality(S) -> S] : \A i, j \in 1..Cardinality(S) : q[i] = q[j] => i = j}

(* ------------------------------------------------------------------ *)
(* Strings of the modelled world                                        *)
(* ------------------------------------------------------------------ *)
SEP == <<"/">>
PNG == <<".", "p", "n", "g">>
MP3 == <<".", "m", "p", "3">>
MP4 == <<".", "m", "p", "4">>
TXT == <<".", "t", "x", "t">>
TMP_EXT == <<".", "t", "m", "p">>
HTTP == <<"h", "t", "t", "p", ":", "/", "/">>
HTTPS_UPPER == <<"H", "T", "T", "P", "S", ":", "/", "/">>

\* os.getcwd() and tempfile.gettempdir()
GetCwd == <<"/", "w">>
GetTempDir == <<"/", "t">>

\* directories beside the two roots: /tx is a sibling of /t whose name begins
\* with the same characters, /o is unrelated, /d is a download folder
DIR_TX == <<"/", "t", "x">>
DIR_O == <<"/", "o">>
DIR_D == <<"/", "d">>

\* regular files present when the application starts
F_A == GetCwd \o SEP \o <<"a">> \o PNG           \* /w/a.png
F_S == GetCwd \o SEP \o <<"s">> \o MP3           \* /w/s.mp3
F_B == DIR_O \o SEP \o <<"b">> \o PNG            \* /o/b.png
F_C == DIR_TX \o SEP \o <<"c">> \o PNG           \* /tx/c.png
F_N == DIR_O \o SEP \o <<"n">> \o TXT            \* /o/n.txt
F_U == GetTempDir \o SEP \o <<"u">> \o PNG       \* /t/u.png, an uploaded file
F_T == GetTempDir \o SEP \o <<"b">> \o PNG       \* /t/b.png, left by an earlier session
F_V == GetCwd \o SEP \o <<"v">> \o MP4           \* /w/v.mp4, one byte over the limit
F_W == GetCwd \o SEP \o <<"w">> \o MP4           \* /w/w.mp4, exactly at the limit
\* a symbolic link inside the working directory that points outside
L_L == GetCwd \o SEP \o <<"l">> \o PNG           \* /w/l.png -> /o/b.png
Symlinks == (L_L :> F_B)

\* references a user may type
R_A == <<"a">> \o PNG                            \* a.png      (relative)
R_A2 == <<".", "/", "a">> \o PNG                 \* ./a.png    (same file)
R_X == <<"x">> \o PNG                            \* x.png      (missing)
U_G == HTTP \o <<"h", "/", "g">> \o PNG          \* http://h/g.png
U_V == HTTPS_UPPER \o <<"h", "/", "v">>          \* HTTPS://h/v (no extension)

\* target.py line 15
FILE_SIZE_LIMIT == 512 * 1024 * 1024

\* the files with their sizes in bytes
InitialFiles == (F_A :> 10) @@ (F_S :> 20) @@ (F_B :> 30) @@ (F_C :> 40)
                @@ (F_N :> 50) @@ (F_U :> 60) @@ (F_V :> FILE_SIZE_LIMIT + 1)
                @@ (F_W :> FILE_SIZE_LIMIT) @@ (F_T :> 99)

(* ------------------------------------------------------------------ *)
(* os.path and the filesystem                                           *)
(* ------------------------------------------------------------------ *)
\* os.path.basename(p)
Basename(p) == SubSeq(p, LastIndexOf(p, "/", Len(p)) + 1, Len(p))

\* os.path.dirname(p) of a normalised absolute path
Dirname(p) == SubSeq(p, 1, LastIndexOf(p, "/", Len(p)) - 1)

\* os.path.join(d, name) for a name without separator
Join(d, name) == d \o SEP \o name

\* os.path.splitext(p)[1]: from the last dot of the last component, unless that
\* dot only leads the component
SplitExt(p) ==
    LET b == Basename(p)
        k == LastIndexOf(b, ".", Len(b))
        lead == CHOOSE n \in 0..Len(b) :
                    /\ \A i \in 1..n : b[i] = "."
                    /\ (n < Len(b) => b[n + 1] /= ".")
    IN IF k > lead THEN SubSeq(b, k, Len(b)) ELSE <<>>

\* the walk of os.path.realpath over the components of an absolute path:
\* empty and "." components vanish, ".." steps up, a symbolic link is followed
RECURSIVE ResolveComps(_, _)
ResolveComps(cur, comps) ==
    IF comps = <<>> THEN cur
    ELSE LET c == Head(comps)
             nxt == cur \o SEP \o c
         IN IF c = <<>> \/ c = <<".">> THEN ResolveComps(cur, Tail(comps))
            ELSE IF c = <<".", ".">> THEN ResolveComps(Dirname(cur), Tail(comps))
            ELSE IF nxt \in DOMAIN Symlinks
                 THEN ResolveComps(<<>>, Split(Symlinks[nxt], "/") \o Tail(comps))
            ELSE ResolveComps(nxt, Tail(comps))

\* os.path.realpath(p): relative paths are taken from the working directory
RealPath(p) ==
    LET abs == IF StartsWith(p, SEP) THEN p ELSE Join(GetCwd, p)
        r == ResolveComps(<<>>, Split(abs, "/"))
    IN IF r = <<>> THEN SEP ELSE r

\* os.path.isfile(p) on the filesystem f (a function from resolved path to size)
IsFile(f, p) == p /= <<>> /\ RealPath(p) \in DOMAIN f

\* mutant of Copy2: the file is moved, it is no longer at src afterwards
Copy2_Move(f, src, dst) ==
    [q \in (DOMAIN f \ {RealPath(src)}) \cup {RealPath(dst)} |->
        IF q = RealPath(dst) THEN f[RealPath(src)] ELSE f[q]]

\* shutil.copy2(src, dst): the file's content is written at dst
Copy2(f, src, dst) ==
    [q \in DOMAIN f \cup {RealPath(dst)} |->
        IF q = RealPath(dst) THEN f[RealPath(src)] ELSE f[q]]

\* the file created by tempfile.NamedTemporaryFile(suffix=ext, dir=folder): a
\* name no file of the folder bears
TempNames == <<<<"n", "1">>, <<"n", "2">>, <<"n", "3">>, <<"n", "4">>, <<"n", "5">>, <<"n", "6">>>>
NamedTemporaryFile(f, folder, ext) ==
    LET k == CHOOSE i \in 1..Len(TempNames) :
                 /\ RealPath(Join(folder, TempNames[i] \o ext)) \notin DOMAIN f
                 /\ \A j \in 1..(i - 1) :
                        RealPath(Join(folder, TempNames[j] \o ext)) \in DOMAIN f
    IN Join(folder, TempNames[k] \o ext)

\* f with a file of the given size at path p
WriteFile(f, p, size) ==
    [q \in DOMAIN f \cup {RealPath(p)} |-> IF q = RealPath(p) THEN size ELSE f[q]]

(* ------------------------------------------------------------------ *)
(* facefusion.filesystem: classification by extension                   *)
(* ------------------------------------------------------------------ *)
IMAGE_EXTENSIONS == {<<".", "j", "p", "g">>, <<".", "j", "p", "e", "g">>, PNG,
                     <<".", "g", "i", "f">>, <<".", "b", "m", "p">>}
AUDIO_EXTENSIONS == {MP3, <<".", "w", "a", "v">>, <<".", "o", "g", "g">>,
                     <<".", "f", "l", "a", "c">>}
VIDEO_EXTENSIONS == {MP4, <<".", "m", "k", "v">>}

is_image(p) == Lower(SplitExt(p)) \in IMAGE_EXTENSIONS
is_audio(p) == Lower(SplitExt(p)) \in AUDIO_EXTENSIONS
is_video(p) == Lower(SplitExt(p)) \in VIDEO_EXTENSIONS
has_image(paths) == \E i \in 1..Len(paths) : is_image(paths[i])
has_audio(paths) == \E i \in 1..Len(paths) : is_audio(paths[i])
filter_image_paths(paths) == SelectSeq(paths, is_image)
filter_audio_paths(paths) == SelectSeq(paths, is_audio)
\* get_first: the first element, None (the empty string here) when there is none
get_first(seq) == IF seq = <<>> THEN <<>> ELSE Head(seq)

(* ------------------------------------------------------------------ *)
(* source.py: helpers of the batch flow                                 *)
(* ------------------------------------------------------------------ *)
is_url(path) ==
    StartsWith(Lower(path), HTTP) \/ StartsWith(Lower(path), <<"h", "t", "t", "p", "s", ":", "/", "/">>)

\* mutant of is_valid_local_file: the existence check is left out
is_valid_local_file_Unchecked(f, path) == path /= <<>>

is_valid_local_file(f, path) == IsFile(f, path)

is_in_allowed_dirs(filepath) ==
    LET real_path == RealPath(filepath)
        real_cwd == RealPath(GetCwd)
        real_temp == RealPath(GetTempDir)
    IN StartsWith(real_path, real_cwd) \/ StartsWith(real_path, real_temp)

\* the path ensure_in_temp returns
ensure_in_temp(filepath) ==
    IF is_in_allowed_dirs(filepath) THEN filepath
    ELSE Join(GetTempDir, Basename(filepath))

\* the filesystem ensure_in_temp leaves
ensure_in_temp_fs(f, filepath) ==
    IF is_in_allowed_dirs(filepath) THEN f
    ELSE Copy2(f, filepath, Join(GetTempDir, Basename(filepath)))

\* the files ensure_in_temp writes (resolved paths)
ensure_in_temp_written(filepath) ==
    IF is_in_allowed_dirs(filepath) THEN {}
    ELSE {RealPath(Join(GetTempDir, Basename(filepath)))}

\* the textbox parse: [p.strip() for p in text_str.split(",") if p.strip()]
textbox_paths(text_str) ==
    LET parts == Split(text_str, ",")
    IN SelectTruthy([i \in 1..Len(parts) |-> Strip(parts[i])])

\* the names of the uploaded files that have one
file_paths(files) == SelectTruthy(files)

(* ------------------------------------------------------------------ *)
(* target.py: helpers of the single-reference flow                      *)
(* ------------------------------------------------------------------ *)
chunk_size == 1024 * 256

\* mutant of is_in_allowed_dir: the temp directory is not looked at
is_in_allowed_dir_CwdOnly(path) ==
    StartsWith(RealPath(path), RealPath(GetCwd))

is_in_allowed_dir(path) ==
    LET real_p == RealPath(path)
        real_cwd == RealPath(GetCwd)
        real_temp == RealPath(GetTempDir)
    IN StartsWith(real_p, real_cwd) \/ StartsWith(real_p, real_temp)

\* the path ensure_in_allowed_dir returns ("" when there is no such file)
ensure_in_allowed_dir(f, filepath) ==
    IF ~IsFile(f, filepath) THEN <<>>
    ELSE IF is_in_allowed_dir(filepath) THEN filepath
    ELSE Join(GetTempDir, Basename(filepath))

\* the filesystem ensure_in_allowed_dir leaves
ensure_in_allowed_dir_fs(f, filepath) ==
    IF ~IsFile(f, filepath) \/ is_in_allowed_dir(filepath) THEN f
    ELSE Copy2(f, filepath, Join(GetTempDir, Basename(filepath)))

\* the files ensure_in_allowed_dir writes (resolved paths)
ensure_in_allowed_dir_written(f, filepath) ==
    IF ~IsFile(f, filepath) \/ is_in_allowed_dir(filepath) THEN {}
    ELSE {RealPath(Join(GetTempDir, Basename(filepath)))}

\* the folder and the suffix download_in_chunks settles on
download_folder(custom_folder) ==
    IF custom_folder /= <<>> THEN custom_folder ELSE GetTempDir

url_ext(url) == IF SplitExt(url) = <<>> THEN TMP_EXT ELSE SplitExt(url)

(* ------------------------------------------------------------------ *)
(* State                                                                *)
(* ------------------------------------------------------------------ *)
VARIABLES
    fs,                  \* the files on disk: resolved path -> size in bytes
    source_paths,        \* state_manager item 'source_paths' (<<>> when cleared)
    target_path,         \* state_manager item 'target_path' (<<>> when cleared)
    custom_temp_folder,  \* state_manager item 'custom_temp_folder' (<<>> when cleared)
    src,                 \* the running or last call of source.update
    tgt,                 \* the running or last call of target.update (a generator)
    dl,                  \* the download_in_chunks generator of that call
    runs                 \* calls of the two update handlers started so far

vars == <<fs, source_paths, target_path, custom_temp_folder, src, tgt, dl, runs>>

\* what a server may serve for a URL: body sizes in bytes
ResourceSizes == {0, chunk_size + 1}

\* the calls of source.update explored: <<text of the textbox, uploaded files>>,
\* an uploaded file being its name (<<>> for an entry without one)
SourceInputs == {
    << <<>>, <<>> >>,
    << <<" ", ",", " ">>, <<>> >>,
    << R_A \o <<",", " ">> \o R_A2, <<>> >>,
    << R_A \o <<",">> \o U_G \o <<",">> \o R_X, <<>> >>,
    << F_B \o <<" ", ",">> \o F_C, <<>> >>,
    << F_S \o <<",", " ">> \o L_L, <<>> >>,
    << R_X \o <<",">> \o F_N, <<>> >>,
    << R_X, <<>> >>,
    << R_A, << <<>>, F_U >> >> }

\* the calls of target.update explored: <<text of the textbox, uploaded file>>,
\* the file being its name (<<>> for none)
TargetInputs == {
    << <<>>, <<>> >>,
    << <<" ">> \o R_A \o <<" ">>, <<>> >>,
    << R_X, <<>> >>,
    << F_B, <<>> >>,
    << F_C, <<>> >>,
    << F_N, <<>> >>,
    << F_V, <<>> >>,
    << F_W, <<>> >>,
    << L_L, <<>> >>,
    << U_G, <<>> >>,
    << U_V, <<>> >>,
    << U_G, F_U >> }

\* the texts typed in the download-folder textbox
FolderTexts == { <<>>, <<" ">> \o DIR_D \o <<" ">>, Join(GetTempDir, <<"d">>) }

SrcIdle == [pc |-> "idle", refs |-> <<>>, raw |-> <<>>, i |-> 1, local_p |-> <<>>,
            processed |-> <<>>, origin |-> <<>>, audio |-> <<>>, image |-> <<>>,
            error |-> "", written |-> {}]
TgtIdle == [pc |-> "idle", textbox_value |-> <<>>, file |-> <<>>, raw |-> <<>>,
            local_path |-> <<>>, events |-> <<>>, error |-> "", written |-> {}]
DlIdle == [url |-> <<>>, custom_folder |-> <<>>, size |-> 0, rem |-> 0, total_size |-> 0, downloaded |-> 0,
           tmp_path |-> <<>>, events |-> <<>>, short |-> 0, conn |-> "none",
           file_open |-> FALSE]

Init ==
    /\ fs = InitialFiles
    /\ source_paths = <<>>
    /\ target_path = <<>>
    /\ custom_temp_folder = <<>>
    /\ src = SrcIdle
    /\ tgt = TgtIdle
    /\ dl = DlIdle
    /\ runs = 0

(* ------------------------------------------------------------------ *)
(* source.py: update (the batch flow)                                   *)
(* ------------------------------------------------------------------ *)
\* list(set(textbox_paths + file_paths)): the distinct strings, in the order
\* the set happens to iterate
all_raw_paths(refs) == Orderings(Range(refs))

\* lines 196-210: parse both inputs, drop textual duplicates, start the loop
SourceUpdate(text_str, files) ==
    /\ src.pc \in {"idle", "done", "raised"}
    /\ runs < MaxRuns
    /\ runs' = runs + 1
    /\ \E order \in all_raw_paths(textbox_paths(text_str) \o file_paths(files)) :
          src' = [SrcIdle EXCEPT !.pc = "loop",
                                 !.refs = textbox_paths(text_str) \o file_paths(files),
                                 !.raw = order]
    /\ UNCHANGED <<fs, source_paths, target_path, custom_temp_folder, tgt, dl>>

\* download_file, lines 41-61: the temp file is created first, then the
\* response is fetched and written; requests.get or raise_for_status may raise
SourceDownload(url) ==
    LET tmp_file_path == NamedTemporaryFile(fs, GetTempDir, url_ext(url))
    IN \/ \E n \in ResourceSizes :
             /\ fs' = WriteFile(fs, tmp_file_path, n)
             /\ src' = [src EXCEPT !.pc = "ensure", !.local_p = tmp_file_path,
                                   !.written = src.written \cup {RealPath(tmp_file_path)}]
       \/ \E e \in {"ConnectionError", "HTTPError"} :
             /\ fs' = WriteFile(fs, tmp_file_path, 0)
             /\ src' = [src EXCEPT !.pc = "raised", !.error = e,
                                   !.written = src.written \cup {RealPath(tmp_file_path)}]

\* process_path, lines 63-76, for the reference the loop is at (lines 211-213)
SourceProcessPath ==
    /\ src.pc = "loop"
    /\ src.i <= Len(src.raw)
    /\ LET p == src.raw[src.i]
       IN IF is_url(p) THEN SourceDownload(p)
          ELSE IF is_valid_local_file(fs, p)
               THEN /\ src' = [src EXCEPT !.pc = "ensure", !.local_p = p]
                    /\ fs' = fs
          ELSE /\ src' = [src EXCEPT !.i = src.i + 1]
               /\ fs' = fs
    /\ UNCHANGED <<source_paths, target_path, custom_temp_folder, tgt, dl, runs>>

\* lines 215-216: ensure_in_temp on the local path, append the safe path;
\* shutil.copy2 raises FileNotFoundError when the file is no longer there
SourceEnsureInTemp ==
    /\ src.pc = "ensure"
    /\ IF ~is_in_allowed_dirs(src.local_p) /\ ~IsFile(fs, src.local_p)
       THEN /\ fs' = fs
            /\ src' = [src EXCEPT !.pc = "raised", !.error = "FileNotFoundError"]
       ELSE /\ fs' = ensure_in_temp_fs(fs, src.local_p)
            /\ src' = [src EXCEPT !.pc = "loop", !.i = src.i + 1, !.local_p = <<>>,
                          !.processed = Append(src.processed, ensure_in_temp(src.local_p)),
                          !.origin = Append(src.origin, src.raw[src.i]),
                          !.written = src.written \cup ensure_in_temp_written(src.local_p)]
    /\ UNCHANGED <<source_paths, target_path, custom_temp_folder, tgt, dl, runs>>

\* mutant of SourceFinish: without audio or image 'source_paths' is left as it was
SourceFinish_KeepsPaths ==
    /\ src.pc = "loop"
    /\ src.i > Len(src.raw)
    /\ IF has_audio(src.processed) \/ has_image(src.processed)
       THEN /\ source_paths' = src.processed
            /\ src' = [src EXCEPT !.pc = "done",
                                  !.audio = get_first(filter_audio_paths(src.processed)),
                                  !.image = get_first(filter_image_paths(src.processed))]
       ELSE /\ source_paths' = source_paths
            /\ src' = [src EXCEPT !.pc = "done"]
    /\ UNCHANGED <<fs, target_path, custom_temp_folder, tgt, dl, runs>>

\* lines 219-236: set or clear 'source_paths' and return the two previews
SourceFinish ==
    /\ src.pc = "loop"
    /\ src.i > Len(src.raw)
    /\ IF has_audio(src.processed) \/ has_image(src.processed)
       THEN /\ source_paths' = src.processed
            /\ src' = [src EXCEPT !.pc = "done",
                                  !.audio = get_first(filter_audio_paths(src.processed)),
                                  !.image = get_first(filter_image_paths(src.processed))]
       ELSE /\ source_paths' = <<>>
            /\ src' = [src EXCEPT !.pc = "done"]
    /\ UNCHANGED <<fs, target_path, custom_temp_folder, tgt, dl, runs>>

(* ------------------------------------------------------------------ *)
(* target.py: update_download_dir                                       *)
(* ------------------------------------------------------------------ *)
\* lines 134-142
update_download_dir(folder) ==
    /\ custom_temp_folder' = Strip(folder)
    /\ custom_temp_folder' /= custom_temp_folder
    /\ UNCHANGED <<fs, source_paths, target_path, src, tgt, dl, runs>>

(* ------------------------------------------------------------------ *)
(* target.py: update (the single-reference flow, a generator)           *)
(* ------------------------------------------------------------------ *)
\* one yielded (gr.Image, gr.Video, str) triple; pct is the percentage of a
\* "Downloading... %" text or the byte count of a "Downloaded bytes:" text
Ev(text, pct, image, video) ==
    [text |-> text, pct |-> pct, image |-> image, video |-> video]
Yield(text) == Ev(text, 0, <<>>, <<>>)
\* the preview frame of an oversized video
FRAME == <<"<frame>">>

get_file_size(f, p) == f[RealPath(p)]

\* mutant of TerminalEvent: a video of exactly the limit counts as too large
TerminalEvent_AtLeast(f, local_path) ==
    IF local_path = <<>> THEN Yield("Invalid or missing file.")
    ELSE IF is_image(local_path) THEN Ev("Image loaded!", 0, local_path, <<>>)
    ELSE IF is_video(local_path)
         THEN IF get_file_size(f, local_path) >= FILE_SIZE_LIMIT
              THEN Ev("Video size too large. Showing first frame only.", 0, FRAME, <<>>)
              ELSE Ev("Video loaded!", 0, <<>>, local_path)
    ELSE Yield("File is neither an image nor a video.")

\* lines 214-257: the terminal event for local_path
TerminalEvent(f, local_path) ==
    IF local_path = <<>> THEN Yield("Invalid or missing file.")
    ELSE IF is_image(local_path) THEN Ev("Image loaded!", 0, local_path, <<>>)
    ELSE IF is_video(local_path)
         THEN IF get_file_size(f, local_path) > FILE_SIZE_LIMIT
              THEN Ev("Video size too large. Showing first frame only.", 0, FRAME, <<>>)
              ELSE Ev("Video loaded!", 0, <<>>, local_path)
    ELSE Yield("File is neither an image nor a video.")

\* lines 214-257: 'target_path' after the terminal event for local_path
TerminalTargetPath(local_path) ==
    IF local_path /= <<>> /\ (is_image(local_path) \/ is_video(local_path))
    THEN local_path
    ELSE <<>>

\* mutant of final_raw_path: the text of the textbox comes first
final_raw_path_TextFirst(textbox_value, file) ==
    IF Strip(textbox_value) /= <<>> THEN Strip(textbox_value) ELSE file

\* lines 160-164: the reference the call works on, the upload first
final_raw_path(textbox_value, file) ==
    IF file /= <<>> THEN file ELSE Strip(textbox_value)

starts_with_scheme(path) ==
    StartsWith(Lower(path), HTTP) \/ StartsWith(Lower(path), <<"h", "t", "t", "p", "s", ":", "/", "/">>)

\* lines 157-178, 208-210: the call up to its first yield or to the point where
\* it turns to the network or to the local file
TargetUpdate(textbox_value, file) ==
    /\ tgt.pc \in {"idle", "done", "raised", "closed"}
    /\ runs < MaxRuns
    /\ runs' = runs + 1
    /\ dl' = DlIdle
    /\ LET raw == final_raw_path(textbox_value, file)
       IN IF raw = <<>>
          THEN /\ target_path' = <<>>
               /\ tgt' = [TgtIdle EXCEPT !.pc = "done",
                                         !.textbox_value = textbox_value, !.file = file,
                                         !.events = <<Yield("No file or URL provided.")>>]
          ELSE /\ target_path' = target_path
               /\ tgt' = [TgtIdle EXCEPT !.raw = raw,
                              !.textbox_value = textbox_value, !.file = file,
                              !.pc = IF starts_with_scheme(raw) THEN "request" ELSE "local"]
    /\ UNCHANGED <<fs, source_paths, custom_temp_folder, src>>

\* lines 210-257 for a local reference: containment, then the terminal event
TargetLocal ==
    /\ tgt.pc = "local"
    /\ LET local_path == ensure_in_allowed_dir(fs, tgt.raw)
       IN /\ fs' = ensure_in_allowed_dir_fs(fs, tgt.raw)
          /\ target_path' = TerminalTargetPath(local_path)
          /\ tgt' = [tgt EXCEPT !.pc = "done", !.local_path = local_path,
                         !.written = ensure_in_allowed_dir_written(fs, tgt.raw),
                         !.events = Append(tgt.events, TerminalEvent(fs', local_path))]
    /\ UNCHANGED <<source_paths, custom_temp_folder, src, dl, runs>>

\* download_in_chunks, lines 265-290: requests.get may raise, raise_for_status
\* may raise; otherwise the length header is read and the temp file is created
TargetRequest ==
    /\ tgt.pc = "request"
    /\ \/ \E e \in {"ConnectionError", "HTTPError"} :
             /\ tgt' = [tgt EXCEPT !.pc = "raised", !.error = e]
             /\ dl' = [dl EXCEPT !.url = tgt.raw,
                                 !.conn = IF e = "HTTPError" THEN "open" ELSE "none"]
             /\ fs' = fs
       \/ \E n \in ResourceSizes, reported \in BOOLEAN :
             LET tmp_path == NamedTemporaryFile(fs, download_folder(custom_temp_folder),
                                                url_ext(tgt.raw))
             IN /\ fs' = WriteFile(fs, tmp_path, 0)
                /\ dl' = [DlIdle EXCEPT !.url = tgt.raw, !.size = n, !.rem = n,
                              !.custom_folder = custom_temp_folder,
                              !.total_size = IF reported THEN n ELSE 0,
                              !.tmp_path = tmp_path, !.conn = "open", !.file_open = TRUE]
                /\ tgt' = [tgt EXCEPT !.pc = "stream", !.written = {RealPath(tmp_path)}]
    /\ UNCHANGED <<source_paths, target_path, custom_temp_folder, src, runs>>

\* lines 183-196: the text update yields for a progress tuple
ProgressEvent(downloaded, total) ==
    IF total > 0
    THEN Ev("Downloading... %", (downloaded * 100) \div total, <<>>, <<>>)
    ELSE Ev("Downloaded bytes:", downloaded, <<>>, <<>>)

\* what download_in_chunks yields
DlProgress(downloaded, total, tmp_path) ==
    [kind |-> "progress", downloaded |-> downloaded, total |-> total, path |-> tmp_path]
\* mutant of DlFinal: the final path is yielded as one more progress tuple
DlFinal_AsTuple(tmp_path) ==
    [kind |-> "progress", downloaded |-> 0, total |-> 0, path |-> tmp_path]
DlFinal(tmp_path) ==
    [kind |-> "final", downloaded |-> 0, total |-> 0, path |-> tmp_path]

\* the lengths the next chunk of iter_content may have
ChunkLengths ==
    {Min(dl.rem, chunk_size)}
    \cup (IF dl.short < MaxShortChunks THEN {0, Min(dl.rem, chunk_size) \div 2} ELSE {})

\* mutant of Chunk: downloaded is set to the chunk's length, not increased by it
Chunk_NoAccumulate(c) ==
    IF c > 0
    THEN /\ fs' = WriteFile(fs, dl.tmp_path, get_file_size(fs, dl.tmp_path) + c)
         /\ dl' = [dl EXCEPT !.rem = dl.rem - c,
                       !.downloaded = c,
                       !.short = IF c < Min(dl.rem, chunk_size) THEN dl.short + 1 ELSE dl.short,
                       !.events = Append(dl.events,
                                         DlProgress(c, dl.total_size, dl.tmp_path))]
         /\ tgt' = [tgt EXCEPT !.pc = "progress",
                        !.events = Append(tgt.events, ProgressEvent(c, dl.total_size))]
    ELSE /\ fs' = fs
         /\ dl' = [dl EXCEPT !.short = dl.short + 1]
         /\ tgt' = tgt

\* lines 291-295: one chunk; a non-empty one is written, counted and reported
Chunk(c) ==
    IF c > 0
    THEN /\ fs' = WriteFile(fs, dl.tmp_path, get_file_size(fs, dl.tmp_path) + c)
         /\ dl' = [dl EXCEPT !.rem = dl.rem - c,
                       !.downloaded = dl.downloaded + c,
                       !.short = IF c < Min(dl.rem, chunk_size) THEN dl.short + 1 ELSE dl.short,
                       !.events = Append(dl.events,
                                         DlProgress(dl.downloaded + c, dl.total_size, dl.tmp_path))]
         /\ tgt' = [tgt EXCEPT !.pc = "progress",
                        !.events = Append(tgt.events,
                                          ProgressEvent(dl.downloaded + c, dl.total_size))]
    ELSE /\ fs' = fs
         /\ dl' = [dl EXCEPT !.short = dl.short + 1]
         /\ tgt' = tgt

\* the stream delivers its next chunk
TargetChunk ==
    /\ tgt.pc = "stream"
    /\ dl.rem > 0
    /\ \E c \in ChunkLengths : Chunk(c)
    /\ UNCHANGED <<source_paths, target_path, custom_temp_folder, src, runs>>

\* the connection breaks while iter_content reads: the exception leaves the
\* with block (the file is closed, delete=False keeps it) and both generators
TargetStreamError ==
    /\ tgt.pc = "stream"
    /\ dl.rem > 0
    /\ dl' = [dl EXCEPT !.conn = "closed", !.file_open = FALSE]
    /\ tgt' = [tgt EXCEPT !.pc = "raised", !.error = "ConnectionError"]
    /\ UNCHANGED <<fs, source_paths, target_path, custom_temp_folder, src, runs>>

\* lines 296-298 and 197-207: the stream is exhausted, the file is closed, the
\* final path is yielded, contained, and "Download complete!" is yielded
TargetDownloadEnd ==
    /\ tgt.pc = "stream"
    /\ dl.rem = 0
    /\ dl' = [dl EXCEPT !.conn = "released", !.file_open = FALSE,
                        !.events = Append(dl.events, DlFinal(dl.tmp_path))]
    /\ fs' = ensure_in_allowed_dir_fs(fs, dl.tmp_path)
    /\ tgt' = [tgt EXCEPT !.pc = "complete",
                          !.local_path = ensure_in_allowed_dir(fs, dl.tmp_path),
                          !.written = tgt.written \cup ensure_in_allowed_dir_written(fs, dl.tmp_path),
                          !.events = Append(tgt.events, Yield("Download complete!"))]
    /\ UNCHANGED <<source_paths, target_path, custom_temp_folder, src, runs>>

\* the consumer asks for the next event after a progress event
TargetResume ==
    /\ tgt.pc = "progress"
    /\ tgt' = [tgt EXCEPT !.pc = "stream"]
    /\ UNCHANGED <<fs, source_paths, target_path, custom_temp_folder, src, dl, runs>>

\* the consumer asks for the next event after "Download complete!": the
\* download generator is exhausted, lines 214-257 yield the terminal event
TargetFinish ==
    /\ tgt.pc = "complete"
    /\ target_path' = TerminalTargetPath(tgt.local_path)
    /\ tgt' = [tgt EXCEPT !.pc = "done",
                   !.events = Append(tgt.events, TerminalEvent(fs, tgt.local_path))]
    /\ UNCHANGED <<fs, source_paths, custom_temp_folder, src, dl, runs>>

\* the consumer closes the generator at one of the download's yields. At a
\* progress event GeneratorExit leaves the with block of download_in_chunks,
\* which closes the file and nothing else; the response is never closed by the
\* code, only dropped. At "Download complete!" the download is over already.
TargetClose ==
    /\ tgt.pc \in {"progress", "complete"}
    /\ IF tgt.pc = "progress"
       THEN \E c \in {"open", "closed"} :
                dl' = [dl EXCEPT !.conn = c, !.file_open = FALSE]
       ELSE dl' = dl
    /\ tgt' = [tgt EXCEPT !.pc = "closed"]
    /\ UNCHANGED <<fs, source_paths, target_path, custom_temp_folder, src, runs>>

(* ------------------------------------------------------------------ *)
(* Specification                                                        *)
(* ------------------------------------------------------------------ *)
Next ==
    \/ \E in \in SourceInputs : SourceUpdate(in[1], in[2])
    \/ SourceProcessPath
    \/ SourceEnsureInTemp
    \/ SourceFinish
    \/ \E t \in FolderTexts : update_download_dir(t)
    \/ \E in \in TargetInputs : TargetUpdate(in[1], in[2])
    \/ TargetLocal
    \/ TargetRequest
    \/ TargetChunk
    \/ TargetStreamError
    \/ TargetDownloadEnd
    \/ TargetResume
    \/ TargetFinish
    \/ TargetClose

Spec == Init /\ [][Next]_vars

(* ------------------------------------------------------------------ *)
(* Notions the claims are stated with                                   *)
(* ------------------------------------------------------------------ *)
\* containment by path components: p is root or lies below it
Under(p, root) ==
    /\ StartsWith(p, root)
    /\ (Len(p) = Len(root) \/ p[Len(root) + 1] = "/")

\* the path resolves to the working directory, the temp directory or below
Contained(p) ==
    \/ Under(RealPath(p), RealPath(GetCwd))
    \/ Under(RealPath(p), RealPath(GetTempDir))

\* position of the first occurrence of x in seq
FirstIndex(seq, x) == CHOOSE i \in 1..Len(seq) : seq[i] = x /\ \A j \in 1..(i - 1) : seq[j] /= x

LastEvent == tgt.events[Len(tgt.events)]

\* C1: every path the batch flow returns or stores in 'source_paths', and the
\* path the single-reference flow stores in 'target_path', resolves to the
\* working directory, the temp directory or a descendant of one of them.
C1_Containment ==
    /\ \A i \in 1..Len(source_paths) : Contained(source_paths[i])
    /\ (src.pc = "done" => \A i \in 1..Len(src.processed) : Contained(src.processed[i]))
    /\ (target_path /= <<>> => Contained(target_path))

\* C2: a reference that is no URL and names no existing regular file
\* contributes no path: every path of the batch flow's processed list comes
\* from a URL or from an existing file, and a single-reference run on such a
\* reference ends with "Invalid or missing file." and 'target_path' cleared.
C2_MissingContributesNothing ==
    /\ Len(src.origin) = Len(src.processed)
    /\ \A k \in 1..Len(src.origin) : is_url(src.origin[k]) \/ IsFile(fs, src.origin[k])
    /\ (tgt.pc = "done" /\ tgt.raw /= <<>> /\ ~starts_with_scheme(tgt.raw) /\ ~IsFile(fs, tgt.raw)
          => /\ LastEvent = Yield("Invalid or missing file.")
             /\ target_path = <<>>)

\* C2's case: a finished batch that held a missing reference beside a valid
\* one, and a finished single-reference run on a missing reference
C2_Witness ==
    /\ src.pc = "done"
    /\ \E r \in Range(src.raw) : ~is_url(r) /\ ~IsFile(fs, r) /\ r \notin Range(src.origin)
    /\ src.processed /= <<>>
    /\ tgt.pc = "done" /\ tgt.raw = R_X

\* C3: in the batch flow a failed fetch is not fatal: the call never ends by
\* an exception, and every valid local reference of the batch is in the result.
C3_PartialSuccess ==
    /\ src.pc /= "raised"
    /\ (src.pc = "done" =>
          \A r \in Range(src.raw) :
              (~is_url(r) /\ IsFile(fs, r)) => r \in Range(src.origin))

\* C4: the batch flow's path list holds no two entries that resolve to the
\* same absolute path.
C4_DedupByResolvedPath ==
    src.pc = "done" =>
        \A i, j \in 1..Len(src.processed) :
            RealPath(src.processed[i]) = RealPath(src.processed[j]) => i = j

\* C5: the batch flow's result lists the surviving paths in the first-seen
\* order of the original reference list (textbox references, then uploads).
C5_OrderPreserved ==
    src.pc = "done" =>
        \A i, j \in 1..Len(src.origin) :
            i < j => FirstIndex(src.refs, src.origin[i]) < FirstIndex(src.refs, src.origin[j])

\* a fetch that went through: the download generator yielded its last item
FetchSucceeded ==
    /\ dl.tmp_path /= <<>>
    /\ tgt.pc \in {"complete", "done"} \/ (tgt.pc = "closed" /\ dl.conn = "released")

\* C6: download_in_chunks yields progress events and then, for a successful
\* fetch, exactly one terminal event carrying the final local path; no event
\* follows the terminal event.
C6_EventStreamShape ==
    /\ \A k \in 1..Len(dl.events) :
          /\ dl.events[k].kind = "final" => k = Len(dl.events)
          /\ dl.events[k].kind \in {"progress", "final"}
    /\ (FetchSucceeded =>
          /\ dl.events /= <<>>
          /\ dl.events[Len(dl.events)].kind = "final"
          /\ dl.events[Len(dl.events)].path = dl.tmp_path
          /\ \A k \in 1..(Len(dl.events) - 1) : dl.events[k].kind = "progress")
    /\ (tgt.pc \in {"stream", "progress"} =>
          \A k \in 1..Len(dl.events) : dl.events[k].kind = "progress")

\* C6's cases: a successful fetch with several progress events, and one with none
C6_Witness ==
    /\ FetchSucceeded
    /\ Len(dl.events) >= 3
    /\ dl.events[Len(dl.events)].kind = "final"
    /\ tgt.pc = "done"

\* C7: in the single-reference flow a fetch failure ends the event sequence
\* with the terminal "Invalid or missing file." event, and the in-progress temp
\* file no longer exists afterwards.
C7_FailureSurfaced ==
    tgt.error /= "" =>
        /\ tgt.events /= <<>>
        /\ LastEvent = Yield("Invalid or missing file.")
        /\ (dl.tmp_path /= <<>> => ~IsFile(fs, dl.tmp_path))

\* C8: when the consumer abandons the event sequence after some but not all
\* progress events, the connection is closed and no partial temp file remains.
C8_CancellationCleanup ==
    (tgt.pc = "closed" /\ dl.rem > 0) =>
        /\ dl.conn = "closed"
        /\ ~IsFile(fs, dl.tmp_path)

\* C9: for a fetch with a reported content length, the downloaded values of
\* successive progress events never decrease and never exceed the bytes
\* written to the temp file, and when the terminal event is produced the
\* file's size is the size of the resource.
C9_ProgressMonotone ==
    (dl.total_size > 0 /\ dl.tmp_path /= <<>>) =>
        /\ \A i, j \in 1..Len(dl.events) :
              (i < j /\ dl.events[j].kind = "progress")
                  => dl.events[i].downloaded <= dl.events[j].downloaded
        /\ \A i \in 1..Len(dl.events) :
              dl.events[i].kind = "progress"
                  => dl.events[i].downloaded <= get_file_size(fs, dl.tmp_path)
        /\ (dl.events /= <<>> /\ dl.events[Len(dl.events)].kind = "final"
              => get_file_size(fs, dl.events[Len(dl.events)].path) = dl.size)

\* C9's case: a resource longer than one chunk, delivered in two chunks
C9_Witness ==
    /\ dl.total_size > chunk_size
    /\ Len(dl.events) = 3
    /\ dl.events[3].kind = "final"
    /\ dl.events[1].downloaded < dl.events[2].downloaded

\* C10 as stated: with a download directory configured, the containment step
\* returns the fetched file's path unchanged, so the final path is the path
\* inside the download directory.
C10_DownloadDirIsRoot ==
    (FetchSucceeded /\ dl.custom_folder /= <<>>) => tgt.local_path = dl.tmp_path

\* C10 amended: the configured download directory is no allowed root of its
\* own. The fetched file's path is returned unchanged exactly when its resolved
\* path begins with the resolved working-directory or temp-directory path;
\* otherwise the file is copied to <temp>/<base name> and that is the final path.
C10_DownloadDirNotRoot ==
    (FetchSucceeded /\ dl.custom_folder /= <<>>) =>
        /\ Under(RealPath(dl.tmp_path), RealPath(dl.custom_folder))
        /\ IF \/ StartsWith(RealPath(dl.tmp_path), RealPath(GetCwd))
              \/ StartsWith(RealPath(dl.tmp_path), RealPath(GetTempDir))
           THEN tgt.local_path = dl.tmp_path
           ELSE /\ tgt.local_path = Join(GetTempDir, Basename(dl.tmp_path))
                /\ tgt.local_path /= dl.tmp_path
                /\ IsFile(fs, tgt.local_path)
                /\ get_file_size(fs, tgt.local_path) = get_file_size(fs, dl.tmp_path)

\* C10's cases: a fetch into a download directory outside both roots has been
\* contained by a copy
C10_Witness ==
    /\ FetchSucceeded
    /\ tgt.pc = "done"
    /\ dl.custom_folder = DIR_D
    /\ dl.size > 0
    /\ tgt.local_path = Join(GetTempDir, Basename(dl.tmp_path))

(* ------------------------------------------------------------------ *)
(* The same handlers beside another actor that deletes a file           *)
(* ------------------------------------------------------------------ *)
\* ensure_in_allowed_dir, lines 305-309: the isfile test and the containment
\* test; a file that needs no copy goes on to the terminal event (lines 214-257)
TargetLocalCheck ==
    /\ tgt.pc = "local"
    /\ IF IsFile(fs, tgt.raw) /\ ~is_in_allowed_dir(tgt.raw)
       THEN /\ tgt' = [tgt EXCEPT !.pc = "copy"]
            /\ target_path' = target_path
       ELSE LET local_path == ensure_in_allowed_dir(fs, tgt.raw)
            IN /\ target_path' = TerminalTargetPath(local_path)
               /\ tgt' = [tgt EXCEPT !.pc = "done", !.local_path = local_path,
                              !.events = Append(tgt.events, TerminalEvent(fs, local_path))]
    /\ UNCHANGED <<fs, source_paths, custom_temp_folder, src, dl, runs>>

\* ensure_in_allowed_dir, lines 311-315: the copy, which raises
\* FileNotFoundError when the file is no longer there; then lines 214-257
TargetLocalCopy ==
    /\ tgt.pc = "copy"
    /\ IF IsFile(fs, tgt.raw)
       THEN LET local_path == Join(GetTempDir, Basename(tgt.raw))
            IN /\ fs' = Copy2(fs, tgt.raw, local_path)
               /\ target_path' = TerminalTargetPath(local_path)
               /\ tgt' = [tgt EXCEPT !.pc = "done", !.local_path = local_path,
                              !.written = {RealPath(local_path)},
                              !.events = Append(tgt.events, TerminalEvent(fs', local_path))]
       ELSE /\ fs' = fs
            /\ target_path' = target_path
            /\ tgt' = [tgt EXCEPT !.pc = "raised", !.error = "FileNotFoundError"]
    /\ UNCHANGED <<source_paths, custom_temp_folder, src, dl, runs>>

\* another process removes a file the handlers may be working on
ExternalDelete(p) ==
    /\ p \in DOMAIN fs
    /\ fs' = [q \in DOMAIN fs \ {p} |-> fs[q]]
    /\ UNCHANGED <<source_paths, target_path, custom_temp_folder, src, tgt, dl, runs>>

\* the calls explored beside the deleting actor: local references only
RaceSourceInputs == {
    << F_B \o <<" ", ",">> \o F_C, <<>> >>,
    << R_A \o <<",", " ">> \o R_A2, <<>> >> }
RaceTargetInputs == { << F_B, <<>> >>, << L_L, <<>> >>, << R_X, <<>> >>, << F_V, <<>> >> }

NextRace ==
    \/ \E in \in RaceSourceInputs : SourceUpdate(in[1], in[2])
    \/ SourceProcessPath
    \/ SourceEnsureInTemp
    \/ SourceFinish
    \/ \E in \in RaceTargetInputs : TargetUpdate(in[1], in[2])
    \/ TargetLocalCheck
    \/ TargetLocalCopy
    \/ ExternalDelete(F_B)

SpecRace == Init /\ [][NextRace]_vars

\* C11: a local file that is deleted between its validation and the
\* containment copy makes the reference an invalid one: the handler does not
\* end by an unhandled error; the batch flow goes on without the reference and
\* the single-reference flow ends with "Invalid or missing file.".
C11_FileVanishedHandled ==
    /\ src.pc /= "raised"
    /\ tgt.pc /= "raised"
    /\ (tgt.pc = "done" /\ tgt.raw /= <<>> /\ ~IsFile(fs, tgt.raw) /\ tgt.local_path = <<>>
          => LastEvent = Yield("Invalid or missing file."))

\* a call of the handler is in progress
SrcRunning == src.pc \in {"loop", "ensure"}
TgtRunning == tgt.pc \in {"local", "copy", "request", "stream", "progress", "complete"}

\* C12: while two requests are in progress, a file one of them
\* writes is never a file the other has written, the containment copies into
\* the temp directory included.
C12_NoSharedWrites ==
    [][(SrcRunning /\ TgtRunning) =>
          /\ (tgt'.written \ tgt.written) \cap src.written = {}
          /\ (src'.written \ src.written) \cap tgt.written = {}]_vars

(* ------------------------------------------------------------------ *)
(* C13                                                                  *)
(* ------------------------------------------------------------------ *)
\* the run of target.update has ended with a video as its local path
VideoDone ==
    /\ tgt.pc = "done"
    /\ tgt.local_path /= <<>>
    /\ ~is_image(tgt.local_path)
    /\ is_video(tgt.local_path)

\* C13: a video is shown as a single frame exactly when its size is strictly
\* greater than 536870912 bytes: at 536870912 bytes the terminal event is
\* "Video loaded!" with the video's path, at 536870913 bytes it is the first
\* frame only; in both cases 'target_path' is the video's path
C13_OversizeThreshold ==
    VideoDone =>
        LET size == fs[RealPath(tgt.local_path)]
        IN /\ target_path = tgt.local_path
           /\ size > 536870912 <=>
                 LastEvent = Ev("Video size too large. Showing first frame only.", 0, FRAME, <<>>)
           /\ size <= 536870912 <=>
                 LastEvent = Ev("Video loaded!", 0, <<>>, tgt.local_path)
           /\ size = 536870912 => LastEvent.video = tgt.local_path /\ LastEvent.image = <<>>
           /\ size = 536870913 => LastEvent.video = <<>> /\ LastEvent.image = FRAME

\* a video of exactly 536870912 bytes has been loaded and is shown in full
C13_Witness ==
    /\ VideoDone
    /\ tgt.local_path = F_W
    /\ fs[F_W] = 536870912
    /\ LastEvent.text = "Video loaded!"

(* ------------------------------------------------------------------ *)
(* C14                                                                  *)
(* ------------------------------------------------------------------ *)
\* some processed path of the batch is an audio or an image file
SomeAudioOrImage ==
    \E i \in 1..Len(src.processed) :
        is_audio(src.processed[i]) \/ is_image(src.processed[i])

\* C14: a batch without a valid audio or image file is no error: a call of
\* source.update that has returned with no audio and no image among its
\* processed paths has cleared 'source_paths' and returned both previews
\* hidden; with an audio or an image among them 'source_paths' is the list of
\* processed paths; and a call raises only when one of its references is a
\* URL, so an empty or blank text and references to missing files never raise
C14_EmptyResultNotError ==
    /\ src.pc = "done" /\ ~SomeAudioOrImage =>
          /\ source_paths = <<>>
          /\ src.audio = <<>>
          /\ src.image = <<>>
    /\ src.pc = "done" /\ SomeAudioOrImage =>
          /\ source_paths = src.processed
          /\ src.audio /= <<>> \/ src.image /= <<>>
    /\ src.pc = "raised" => \E i \in 1..Len(src.raw) : is_url(src.raw[i])

\* the second call has returned: it had references, none of them gave an audio
\* or an image file, and 'source_paths' is cleared
C14_Witness ==
    /\ src.pc = "done"
    /\ runs = MaxRuns
    /\ tgt.pc = "idle"
    /\ src.raw /= <<>>
    /\ ~SomeAudioOrImage
    /\ source_paths = <<>>

(* ------------------------------------------------------------------ *)
(* C15                                                                  *)
(* ------------------------------------------------------------------ *)
\* C15: the allowed-directory check is by path components: for the path a flow
\* is about to hand to its containment step, is_in_allowed_dirs (batch flow)
\* and is_in_allowed_dir (single-reference flow) are true only if the resolved
\* path is a resolved root or lies below one; a path in a sibling directory
\* whose name begins with the root's name is not taken as contained
C15_CheckByComponents ==
    /\ src.pc = "ensure" /\ is_in_allowed_dirs(src.local_p) => Contained(src.local_p)
    /\ tgt.pc = "local" /\ is_in_allowed_dir(tgt.raw) => Contained(tgt.raw)

(* ------------------------------------------------------------------ *)
(* C16                                                                  *)
(* ------------------------------------------------------------------ *)
\* what one containment step, given the path p and returning ret, may do to
\* the filesystem: every file other than <temp>/<base name of p> is as it was,
\* no other file appears, the file at p is as it was; a contained file means
\* no change at all and ret = p; a returned path other than p is
\* <temp>/<base name of p>, which then holds the content of the file at p
ContainmentFrame(p, ret) ==
    LET dest == Join(GetTempDir, Basename(p))
    IN /\ \A q \in DOMAIN fs :
              q /= RealPath(dest) => q \in DOMAIN fs' /\ fs'[q] = fs[q]
       /\ \A q \in DOMAIN fs' : q /= RealPath(dest) => q \in DOMAIN fs
       /\ RealPath(p) \in DOMAIN fs =>
              RealPath(p) \in DOMAIN fs' /\ fs'[RealPath(p)] = fs[RealPath(p)]
       /\ RealPath(p) \in DOMAIN fs /\ Contained(p) => fs' = fs /\ ret = p
       /\ fs' /= fs => ret = dest
       /\ ret \notin {p, <<>>} =>
              /\ ret = dest
              /\ RealPath(dest) \in DOMAIN fs'
              /\ fs'[RealPath(dest)] = fs[RealPath(p)]

FailureTexts ==
    {"No file or URL provided.", "Invalid or missing file.",
     "File is neither an image nor a video."}

\* C17: when a run of target.update has yielded its terminal event,
\* 'target_path' is absent or is the contained local path of that run, whose
\* file is an image or a video; a run that ends with one of the three failure
\* texts leaves 'target_path' cleared
C17_TargetPathValid ==
    tgt.pc = "done" =>
        /\ \/ target_path = <<>>
           \/ /\ target_path = tgt.local_path
              /\ Contained(target_path)
              /\ is_image(target_path) \/ is_video(target_path)
        /\ LastEvent.text \in FailureTexts => target_path = <<>>

(* ------------------------------------------------------------------ *)
(* C18                                                                  *)
(* ------------------------------------------------------------------ *)
\* the run of target.update has started no fetch: no request was made, no
\* temp file was created for a download, no event of a download was yielded
NoFetch ==
    /\ dl = DlIdle
    /\ tgt.pc \notin {"request", "stream", "progress", "complete", "closed"}
    /\ \A i \in 1..Len(tgt.events) :
           tgt.events[i].text \notin
               {"Downloading... %", "Downloaded bytes:", "Download complete!"}

\* C18: with an uploaded file the run works on the uploaded file's path only,
\* whatever the textbox holds: no fetch is started and no progress event is
\* yielded even when the textbox holds a URL; and a run on a local (non-URL)
\* reference never starts a fetch
C18_UploadPriority ==
    /\ tgt.file /= <<>> => tgt.raw = tgt.file
    /\ tgt.file /= <<>> /\ ~starts_with_scheme(tgt.file) => NoFetch
    /\ tgt.pc /= "idle" /\ ~starts_with_scheme(tgt.raw) => NoFetch

\* a run given the upload /t/u.png and the URL http://h/g.png in the textbox
\* has ended with the upload loaded
C18_Witness ==
    /\ tgt.pc = "done"
    /\ tgt.file = F_U
    /\ starts_with_scheme(Strip(tgt.textbox_value))
    /\ tgt.local_path = F_U
    /\ target_path = F_U
    /\ LastEvent.text = "Image loaded!"

====
